---- MODULE Spec2Model ----
(***************************************************************************)
(* The EPA walkability data cleaning pipeline of src/clean_data.py as a    *)
(* state machine.  The script is one straight run through ten steps; each  *)
(* step is one action, pc names the step that runs next.                   *)
(*                                                                         *)
(* Numbers.  pandas holds NatWalkInd, Calculated_NWI and the differences   *)
(* as IEEE-754 binary64.  A binary64 value x >= 0 is modelled exactly, as  *)
(* the integer x * 2^62 written in three limbs <<l2, l1, l0>> of 24 bits   *)
(* (l2 unbounded above), and every operation rounds to 53 significant bits *)
(* with ties to even, as the hardware does.  A NatWalkInd cell holds the   *)
(* integer h that names the binary64 nearest to h/100; a ranked score and  *)
(* a raw variable hold integers; NaN is the missing cell.                  *)
(*                                                                         *)
(* Plot calls (matplotlib) are taken to succeed and are modelled by the    *)
(* PNG file they save.  Text printed to stdout is modelled only where it   *)
(* carries a result (the range status lines, the verification message).    *)
(* mean_diff is the pair of the sum and the count that mean() divides; the *)
(* std row of describe() is printed but not modelled.                      *)
(*                                                                         *)
(* Exceptions.  The script catches nothing: an exception ends the run at   *)
(* the statement that raised it (pc = "failed") and leaves the files that  *)
(* were written before it.  read_csv raises on an unparseable source,      *)
(* df_raw[key_columns] on a missing column, and each of the three writes   *)
(* of step 9 on a destination that cannot be written.                      *)
(***************************************************************************)
EXTENDS Integers, Sequences, FiniteSets, TLC

VARIABLES
    pc,                 \* the step that runs next, "done" or "failed"
    input_file,         \* what read_csv finds at input_file
    df_raw,             \* the raw frame
    df,                 \* the working frame
    files,              \* output files written so far: name -> content
    duplicates_before,
    full_duplicates,
    duplicates_removed,
    missing_before,
    range_report,       \* per validated variable: actual_min, actual_max, in_range
    data_filtered,      \* the D4A values the step 5 histogram shows
    max_diff,
    mean_diff,          \* the sum and the count that difference.mean() divides
    verification,       \* which of the two step 6 messages was printed
    category_counts,
    summary_stats,
    comparison_data

vars == <<pc, input_file, df_raw, df, files, duplicates_before, full_duplicates,
          duplicates_removed, missing_before, range_report, data_filtered,
          max_diff, mean_diff, verification, category_counts, summary_stats,
          comparison_data>>

(***************************************************************************)
(* Bounds of the model.                                                    *)
(***************************************************************************)
MaxRows == 3

\* the largest index, in hundredths, among the single-row inputs
MaxScore == 2100

(***************************************************************************)
(* Cells.                                                                  *)
(***************************************************************************)
NaN == 0 - 2^30

isnull(v) == v = NaN

Range(s) == {s[i] : i \in 1..Len(s)}

RECURSIVE Reverse(_)
Reverse(s) == IF s = <<>> THEN <<>> ELSE Append(Reverse(Tail(s)), Head(s))

(***************************************************************************)
(* binary64 arithmetic on values >= 0.                                     *)
(***************************************************************************)
Limb == 2^24

FracBits == 48 + 14

F64NaN == <<>>

RECURSIVE BitLen(_)
BitLen(n) == IF n = 0 THEN 0 ELSE 1 + BitLen(n \div 2)

Carry(x) ==
    LET c0 == x[3] \div Limb
        m1 == x[2] + c0
        c1 == m1 \div Limb
    IN  <<x[1] + c1, m1 % Limb, x[3] % Limb>>

\* Round to 53 significant bits, ties to even; sticky says that the exact
\* value lies strictly above x.  Values in the model have 2^-9 <= x < 2^15
\* or x = 0, so the rounding position lies in the lowest limb.
Round53(x, sticky) ==
    LET len == IF x[1] > 0 THEN 48 + BitLen(x[1])
               ELSE IF x[2] > 0 THEN 24 + BitLen(x[2]) ELSE BitLen(x[3])
        k == len - 53
    IN  IF k <= 0 THEN x
        ELSE LET u == 2^k
                 low == x[3] % u
                 half == u \div 2
                 odd == ((x[3] \div u) % 2 = 1)
                 up == low > half \/ (low = half /\ (sticky \/ odd))
             IN  Carry(<<x[1], x[2], x[3] - low + (IF up THEN u ELSE 0)>>)

\* The binary64 quotient n / d of two small naturals.
F64Div(n, d) ==
    LET t2 == n * 2^(FracBits - 48)
        q2 == t2 \div d
        t1 == (t2 % d) * Limb
        q1 == t1 \div d
        t0 == (t1 % d) * Limb
        q0 == t0 \div d
    IN  Round53(<<q2, q1, q0>>, t0 % d # 0)

F64Add(a, b) ==
    Round53(Carry(<<a[1] + b[1], a[2] + b[2], a[3] + b[3]>>), FALSE)

F64Less(a, b) ==
    \/ a[1] < b[1]
    \/ a[1] = b[1] /\ a[2] < b[2]
    \/ a[1] = b[1] /\ a[2] = b[2] /\ a[3] < b[3]

\* |a - b|
F64AbsDiff(a, b) ==
    LET hi == IF F64Less(a, b) THEN b ELSE a
        lo == IF F64Less(a, b) THEN a ELSE b
        d0 == hi[3] - lo[3]
        b0 == IF d0 < 0 THEN 1 ELSE 0
        d1 == hi[2] - lo[2] - b0
        b1 == IF d1 < 0 THEN 1 ELSE 0
    IN  Round53(<<hi[1] - lo[1] - b1, d1 + b1 * Limb, d0 + b0 * Limb>>, FALSE)

\* The binary64 a NatWalkInd cell holds, and the one an integer cell holds.
F64OfHundredths(h) == F64Div(h, 100)

F64OfInt(n) == F64Div(n, 1)

(***************************************************************************)
(* STEP 2: the column whitelist.                                           *)
(***************************************************************************)
key_columns ==
    << "GEOID10", "GEOID20", "STATEFP", "COUNTYFP", "TRACTCE", "BLKGRPCE",
       "CBSA", "CBSA_Name", "CSA", "CSA_Name",
       "TotPop", "HH", "CountHU",
       "D3B", "D4A", "D2B_E8MIXA", "D2A_EPHHM",
       "D2A_Ranked", "D2B_Ranked", "D3B_Ranked", "D4A_Ranked",
       "NatWalkInd",
       "Ac_Land", "TotEmp", "Workers",
       "AutoOwn0", "AutoOwn1", "AutoOwn2p",
       "Pct_AO0", "Pct_AO1", "Pct_AO2p" >>

(***************************************************************************)
(* Frames: a frame is its column list and its rows, a row a function from  *)
(* the column names to cells.                                              *)
(***************************************************************************)
NoFrame == [cols |-> <<>>, rows |-> <<>>]

len(frame) == Len(frame.rows)

\* frame[columns]
Select(frame, columns) ==
    [cols |-> columns,
     rows |-> [i \in 1..Len(frame.rows) |->
                  [c \in Range(columns) |-> frame.rows[i][c]]]]

\* frame[var] as a sequence of cells
Column(frame, var) == [i \in 1..Len(frame.rows) |-> frame.rows[i][var]]

\* the rows i of s with flags[i]
RECURSIVE KeepFrom(_, _, _)
KeepFrom(s, flags, i) ==
    IF i > Len(s) THEN <<>>
    ELSE (IF flags[i] THEN <<s[i]>> ELSE <<>>) \o KeepFrom(s, flags, i + 1)

Count(flags) == Cardinality({i \in DOMAIN flags : flags[i]})

\* frame.duplicated(subset): a row is a duplicate when an earlier row agrees
\* with it on subset (NaN agrees with NaN)
duplicated(frame, subset) ==
    [i \in 1..Len(frame.rows) |->
        \E j \in 1..(i - 1) :
            \A c \in subset : frame.rows[j][c] = frame.rows[i][c]]

\* a slip: the result comes out sorted by the key, as groupby().first() does
drop_duplicates_sorted(frame, subset) ==
    LET kept == KeepFrom(frame.rows, [i \in 1..Len(frame.rows) |->
                                         ~duplicated(frame, subset)[i]], 1)
    IN  [cols |-> frame.cols,
         rows |-> [p \in 1..Len(kept) |->
                      CHOOSE r \in Range(kept) :
                          Cardinality({q \in Range(kept) :
                                          q["GEOID10"] < r["GEOID10"]}) = p - 1]]

\* a slip: keep=False drops every row of a repeated key
drop_duplicates_keep_none(frame, subset) ==
    [cols |-> frame.cols,
     rows |-> KeepFrom(frame.rows,
                       [i \in 1..Len(frame.rows) |->
                           ~\E j \in 1..Len(frame.rows) :
                               /\ j # i
                               /\ \A c \in subset :
                                      frame.rows[j][c] = frame.rows[i][c]],
                       1)]

\* a slip: drop_duplicates() without subset compares whole rows
drop_duplicates_whole_row(frame, subset) ==
    [cols |-> frame.cols,
     rows |-> KeepFrom(frame.rows, [i \in 1..Len(frame.rows) |->
                                       ~duplicated(frame, Range(frame.cols))[i]], 1)]

\* a slip: keep='last'
drop_duplicates_keep_last(frame, subset) ==
    [cols |-> frame.cols,
     rows |-> KeepFrom(frame.rows,
                       [i \in 1..Len(frame.rows) |->
                           ~\E j \in (i + 1)..Len(frame.rows) :
                               \A c \in subset : frame.rows[j][c] = frame.rows[i][c]],
                       1)]

\* frame.drop_duplicates(subset, keep='first')
drop_duplicates(frame, subset) ==
    [cols |-> frame.cols,
     rows |-> KeepFrom(frame.rows, [i \in 1..Len(frame.rows) |->
                                       ~duplicated(frame, subset)[i]], 1)]

(***************************************************************************)
(* The inputs: what read_csv returns for the file.                         *)
(***************************************************************************)
RawColumns ==
    <<"OBJECTID">> \o Reverse(key_columns) \o <<"Shape_Length", "Shape_Area">>

\* a source that lacks a required column
ShortColumns == SelectSeq(RawColumns, LAMBDA c : c # "Pct_AO2p")

\* ranked = <<D3B_Ranked, D4A_Ranked, D2B_Ranked, D2A_Ranked>>
RawRow(geoid, d3b, d4a, ranked, nwi) ==
    [c \in Range(RawColumns) |->
        CASE c = "GEOID10" -> geoid
          [] c = "D3B" -> d3b
          [] c = "D4A" -> d4a
          [] c = "D3B_Ranked" -> ranked[1]
          [] c = "D4A_Ranked" -> ranked[2]
          [] c = "D2B_Ranked" -> ranked[3]
          [] c = "D2A_Ranked" -> ranked[4]
          [] c = "NatWalkInd" -> nwi
          [] c = "D2A_EPHHM" -> IF d3b = NaN THEN NaN ELSE 1
          [] OTHER -> 0]

SampleRows ==
    { RawRow(1, 50, 400, <<12, 9, 15, 6>>, 1050),       \* formula exact
      RawRow(1, 70, 0 - 99999, <<12, 9, 15, 6>>, 1052), \* same key, 0.02 off
      RawRow(2, 50, 0 - 99999, <<12, 1, 15, 6>>, 783),  \* no transit
      RawRow(2, 50, 400, <<12, 9, 15, 6>>, 1051),       \* 0.01 off
      RawRow(2, NaN, 400, <<12, 9, 15, NaN>>, 1050),    \* null ranked score
      RawRow(3, NaN, NaN, <<12, 9, 15, 6>>, NaN),       \* null index
      RawRow(3, 50, 900, <<25, 20, 20, 20>>, 2167),     \* above the domain
      RawRow(1, 50, 400, <<0, 0, 0, 0>>, 1) }           \* below the domain

Tables(rowset) ==
    UNION {[1..n -> rowset] : n \in 1..MaxRows}

Unparseable == [cols |-> <<"?">>, rows |-> <<>>]

Sources ==
    {[cols |-> RawColumns, rows |-> t] : t \in Tables(SampleRows)}
    \cup {[cols |-> ShortColumns,
           rows |-> [i \in DOMAIN t |->
                        [c \in Range(ShortColumns) |-> t[i][c]]]] :
             t \in Tables(SampleRows)}
    \cup {Unparseable}

\* one-row sources whose index runs over every hundredth up to MaxScore/100
ScoreSources ==
    {[cols |-> RawColumns,
      rows |-> <<RawRow(1, 50, 400, <<12, 9, 15, 6>>, v)>>] :
        v \in (0..MaxScore) \cup {NaN}}

\* five-row sources: row d repeats the GEOID10 of the earlier row e, row n
\* has a null in ranked score c, row s has D4A = -99999, every value lies
\* in its expected range
ScenarioRows(d, e, n, c, s) ==
    [i \in 1..5 |->
        RawRow(IF i = d THEN e ELSE i,
               50,
               IF i = s THEN 0 - 99999 ELSE 400,
               [j \in 1..4 |-> IF i = n /\ j = c THEN NaN
                               ELSE IF i = s /\ j = 2 THEN 1
                               ELSE <<12, 9, 15, 6>>[j]],
               IF i = s THEN 783 ELSE 1050)]

ScenarioSources ==
    {[cols |-> RawColumns, rows |-> ScenarioRows(d, e, n, c, s)] :
        <<d, e, n, c, s>> \in
            {t \in (2..5) \X (1..4) \X (1..5) \X (1..4) \X (1..5) :
                t[2] < t[1] /\ t[3] # t[1] /\ t[5] # t[1]}}

(***************************************************************************)
(* The state before the first step.                                        *)
(***************************************************************************)
Unset ==
    /\ df_raw = NoFrame
    /\ df = NoFrame
    /\ files = <<>>
    /\ duplicates_before = 0
    /\ full_duplicates = 0
    /\ duplicates_removed = 0
    /\ missing_before = <<>>
    /\ range_report = <<>>
    /\ data_filtered = <<>>
    /\ max_diff = F64NaN
    /\ mean_diff = [total |-> <<0, 0, 0>>, count |-> 0]
    /\ verification = "none"
    /\ category_counts = <<>>
    /\ summary_stats = <<>>
    /\ comparison_data = <<>>

Init ==
    /\ pc = "step1"
    /\ input_file \in Sources
    /\ Unset

InitCategorize ==
    /\ pc = "step1"
    /\ input_file \in ScoreSources
    /\ Unset

InitScenario ==
    /\ pc = "step1"
    /\ input_file \in ScenarioSources
    /\ Unset

\* f.write / savefig / to_csv: the file now holds content
Write(fs, name, content) == (name :> content) @@ fs

(***************************************************************************)
(* STEP 1: LOAD THE RAW DATA                                               *)
(***************************************************************************)
Step1 ==
    /\ pc = "step1"
    /\ IF input_file = Unparseable
       THEN /\ pc' = "failed"
            /\ UNCHANGED <<df_raw, files>>
       ELSE /\ df_raw' = input_file
            /\ files' = Write(files, "images/step1_raw_data_info.txt",
                              [rows |-> len(input_file),
                               columns |-> Len(input_file.cols)])
            /\ pc' = "step2"
    /\ UNCHANGED <<input_file, df, duplicates_before, full_duplicates,
                   duplicates_removed, missing_before, range_report,
                   data_filtered, max_diff, mean_diff, verification, category_counts,
                   summary_stats, comparison_data>>

(***************************************************************************)
(* STEP 2: SELECT RELEVANT COLUMNS                                         *)
(***************************************************************************)
Step2 ==
    /\ pc = "step2"
    /\ IF ~(Range(key_columns) \subseteq Range(df_raw.cols))
       THEN /\ pc' = "failed"                   \* KeyError
            /\ UNCHANGED <<df, files>>
       ELSE /\ df' = Select(df_raw, key_columns)
            /\ files' = Write(files, "images/step2_column_selection.png", "png")
            /\ pc' = "step3"
    /\ UNCHANGED <<input_file, df_raw, duplicates_before, full_duplicates,
                   duplicates_removed, missing_before, range_report,
                   data_filtered, max_diff, mean_diff, verification, category_counts,
                   summary_stats, comparison_data>>

(***************************************************************************)
(* STEP 3: CHECK FOR DUPLICATES                                            *)
(***************************************************************************)
Step3 ==
    /\ pc = "step3"
    /\ duplicates_before' = Count(duplicated(df, {"GEOID10"}))
    /\ full_duplicates' = Count(duplicated(df, Range(df.cols)))
    /\ LET df_clean == drop_duplicates(df, {"GEOID10"})
       IN  /\ duplicates_removed' = len(df) - len(df_clean)
           /\ df' = df_clean
    /\ files' = Write(files, "images/step3_duplicates.png", "png")
    /\ pc' = "step4"
    /\ UNCHANGED <<input_file, df_raw, missing_before, range_report,
                   data_filtered, max_diff, mean_diff, verification, category_counts,
                   summary_stats, comparison_data>>

(***************************************************************************)
(* STEP 4: HANDLE MISSING VALUES                                           *)
(***************************************************************************)
key_vars == <<"D3B", "D4A", "D2B_E8MIXA", "D2A_EPHHM", "NatWalkInd">>

\* frame[var].isnull().sum()
isnull_sum(frame, var) ==
    Count([i \in 1..Len(frame.rows) |-> isnull(frame.rows[i][var])])

\* a slip: rows with a missing key variable are dropped
Step4_dropna ==
    /\ pc = "step4"
    /\ missing_before' = [v \in Range(key_vars) |-> isnull_sum(df, v)]
    /\ df' = [cols |-> df.cols,
              rows |-> KeepFrom(df.rows,
                                [i \in 1..Len(df.rows) |->
                                    \A v \in Range(key_vars) : ~isnull(df.rows[i][v])],
                                1)]
    /\ files' = Write(files, "images/step4_missing_values_before.png", "png")
    /\ pc' = "step5"
    /\ UNCHANGED <<input_file, df_raw, duplicates_before, full_duplicates,
                   duplicates_removed, range_report, data_filtered, max_diff, mean_diff,
                   verification, category_counts, summary_stats,
                   comparison_data>>

Step4 ==
    /\ pc = "step4"
    /\ missing_before' = [v \in Range(key_vars) |-> isnull_sum(df, v)]
    /\ files' = Write(files, "images/step4_missing_values_before.png", "png")
    /\ pc' = "step5"
    /\ UNCHANGED <<input_file, df_raw, df, duplicates_before, full_duplicates,
                   duplicates_removed, range_report, data_filtered, max_diff, mean_diff,
                   verification, category_counts, summary_stats,
                   comparison_data>>

(***************************************************************************)
(* STEP 5: CHECK DATA RANGES AND OUTLIERS                                  *)
(***************************************************************************)
expected_ranges ==
    [var \in {"D2A_Ranked", "D2B_Ranked", "D3B_Ranked", "D4A_Ranked",
              "NatWalkInd"} |-> <<1, 20>>]

Sentinel == 0 - 99999

Present(values) == {values[i] : i \in {j \in DOMAIN values : ~isnull(values[j])}}

\* Series.min() / Series.max(): NaN cells are skipped, NaN when none is left
SeriesMin(values) ==
    IF Present(values) = {} THEN NaN
    ELSE CHOOSE m \in Present(values) : \A v \in Present(values) : m <= v

SeriesMax(values) ==
    IF Present(values) = {} THEN NaN
    ELSE CHOOSE m \in Present(values) : \A v \in Present(values) : m >= v

\* the binary64 in a cell of column var
CellF64(var, v) ==
    IF var = "NatWalkInd" THEN F64OfHundredths(v) ELSE F64OfInt(v)

\* (actual_min >= min_val) and (actual_max <= max_val); a comparison with NaN
\* is False
InRange(var, actual_min, actual_max, min_val, max_val) ==
    /\ ~isnull(actual_min)
    /\ ~isnull(actual_max)
    /\ ~F64Less(CellF64(var, actual_min), F64OfInt(min_val))
    /\ ~F64Less(F64OfInt(max_val), CellF64(var, actual_max))

RangeCheck(frame, var) ==
    LET actual_min == SeriesMin(Column(frame, var))
        actual_max == SeriesMax(Column(frame, var))
    IN  [actual_min |-> actual_min,
         actual_max |-> actual_max,
         in_range |-> InRange(var, actual_min, actual_max,
                              expected_ranges[var][1], expected_ranges[var][2])]

\* a slip: >= lets the sentinel through
DataFiltered_geq(data) ==
    KeepFrom(data, [i \in DOMAIN data |-> ~isnull(data[i]) /\ data[i] >= Sentinel], 1)

\* data[data > -99999] for the D4A histogram
DataFiltered(data) ==
    KeepFrom(data, [i \in DOMAIN data |-> ~isnull(data[i]) /\ data[i] > Sentinel], 1)

\* a slip: rows outside an expected range are filtered out
Step5_filter ==
    /\ pc = "step5"
    /\ range_report' = [var \in DOMAIN expected_ranges |-> RangeCheck(df, var)]
    /\ data_filtered' = DataFiltered(Column(df, "D4A"))
    /\ df' = [cols |-> df.cols,
              rows |-> KeepFrom(df.rows,
                                [i \in 1..Len(df.rows) |->
                                    \A var \in DOMAIN expected_ranges :
                                        \/ isnull(df.rows[i][var])
                                        \/ InRange(var, df.rows[i][var], df.rows[i][var],
                                                   expected_ranges[var][1],
                                                   expected_ranges[var][2])],
                                1)]
    /\ files' = Write(files, "images/step5_distributions.png", "png")
    /\ pc' = "step6"
    /\ UNCHANGED <<input_file, df_raw, duplicates_before, full_duplicates,
                   duplicates_removed, missing_before, max_diff, mean_diff, verification,
                   category_counts, summary_stats, comparison_data>>

Step5 ==
    /\ pc = "step5"
    /\ range_report' = [var \in DOMAIN expected_ranges |-> RangeCheck(df, var)]
    /\ data_filtered' = DataFiltered(Column(df, "D4A"))
    /\ files' = Write(files, "images/step5_distributions.png", "png")
    /\ pc' = "step6"
    /\ UNCHANGED <<input_file, df_raw, df, duplicates_before, full_duplicates,
                   duplicates_removed, missing_before, max_diff, mean_diff, verification,
                   category_counts, summary_stats, comparison_data>>

(***************************************************************************)
(* STEP 6: VERIFY WALKABILITY INDEX CALCULATION                            *)
(***************************************************************************)
\* frame[name] = values
SetColumn(frame, name, values) ==
    [cols |-> IF name \in Range(frame.cols) THEN frame.cols
              ELSE Append(frame.cols, name),
     rows |-> [i \in 1..Len(frame.rows) |-> (name :> values[i]) @@ frame.rows[i]]]

\* a slip: the drop is forgotten
drop_forgotten(frame, name) == frame

\* frame.drop(name, axis=1)
drop(frame, name) ==
    [cols |-> SelectSeq(frame.cols, LAMBDA c : c # name),
     rows |-> [i \in 1..Len(frame.rows) |->
                  [c \in Range(frame.cols) \ {name} |-> frame.rows[i][c]]]]

\* (D3B_Ranked / 3) + (D4A_Ranked / 3) + (D2B_Ranked / 6) + (D2A_Ranked / 6)
Calculated_NWI(row) ==
    IF \/ isnull(row["D3B_Ranked"]) \/ isnull(row["D4A_Ranked"])
       \/ isnull(row["D2B_Ranked"]) \/ isnull(row["D2A_Ranked"])
    THEN F64NaN
    ELSE F64Add(F64Add(F64Add(F64Div(row["D3B_Ranked"], 3),
                              F64Div(row["D4A_Ranked"], 3)),
                       F64Div(row["D2B_Ranked"], 6)),
                F64Div(row["D2A_Ranked"], 6))

\* a slip: a missing difference is filled with 0
difference_fillna(row) ==
    IF isnull(row["NatWalkInd"]) \/ row["Calculated_NWI"] = F64NaN
    THEN <<0, 0, 0>>
    ELSE F64AbsDiff(F64OfHundredths(row["NatWalkInd"]), row["Calculated_NWI"])

\* (df['NatWalkInd'] - df['Calculated_NWI']).abs() for one row
difference(row) ==
    IF isnull(row["NatWalkInd"]) \/ row["Calculated_NWI"] = F64NaN
    THEN F64NaN
    ELSE F64AbsDiff(F64OfHundredths(row["NatWalkInd"]), row["Calculated_NWI"])

\* Series.max() of binary64 values: NaN is skipped, NaN when none is left
F64SeriesMax(values) ==
    LET present == {values[i] : i \in {j \in DOMAIN values : values[j] # F64NaN}}
    IN  IF present = {} THEN F64NaN
        ELSE CHOOSE m \in present : \A v \in present : ~F64Less(m, v)

\* Series.mean() of binary64 values: NaN is skipped; the mean is total / count,
\* NaN when count is 0
RECURSIVE F64SeriesSum(_)
F64SeriesSum(values) ==
    IF values = <<>> THEN <<0, 0, 0>>
    ELSE LET front == SubSeq(values, 1, Len(values) - 1)
             last == values[Len(values)]
         IN  IF last = F64NaN THEN F64SeriesSum(front)
             ELSE F64Add(F64SeriesSum(front), last)

F64SeriesMean(values) ==
    [total |-> F64SeriesSum(values),
     count |-> Cardinality({i \in DOMAIN values : values[i] # F64NaN})]

\* the literal 0.01
Tolerance == F64Div(1, 100)

\* a slip: <= for <
Verified_leq(d) == d # F64NaN /\ ~F64Less(Tolerance, d)

\* max_diff < 0.01 (False for NaN)
Verified(d) == d # F64NaN /\ F64Less(d, Tolerance)

\* a slip: a formula mismatch raises
Step6_raise ==
    /\ pc = "step6"
    /\ LET with_calc == SetColumn(df, "Calculated_NWI",
                                  [i \in 1..len(df) |-> Calculated_NWI(df.rows[i])])
           diffs == [i \in 1..len(df) |-> difference(with_calc.rows[i])]
       IN  /\ max_diff' = F64SeriesMax(diffs)
           /\ mean_diff' = F64SeriesMean(diffs)
           /\ verification' = IF Verified(F64SeriesMax(diffs))
                              THEN "verified" ELSE "discrepancies"
           /\ df' = drop(with_calc, "Calculated_NWI")
           /\ pc' = IF Verified(F64SeriesMax(diffs)) THEN "step7" ELSE "failed"
    /\ files' = Write(files, "images/step6_calculation_verification.png", "png")
    /\ UNCHANGED <<input_file, df_raw, duplicates_before, full_duplicates,
                   duplicates_removed, missing_before, range_report,
                   data_filtered, category_counts, summary_stats,
                   comparison_data>>

Step6 ==
    /\ pc = "step6"
    /\ LET with_calc == SetColumn(df, "Calculated_NWI",
                                  [i \in 1..len(df) |-> Calculated_NWI(df.rows[i])])
           diffs == [i \in 1..len(df) |-> difference(with_calc.rows[i])]
       IN  /\ max_diff' = F64SeriesMax(diffs)
           /\ mean_diff' = F64SeriesMean(diffs)
           /\ verification' = IF Verified(F64SeriesMax(diffs))
                              THEN "verified" ELSE "discrepancies"
           /\ df' = drop(with_calc, "Calculated_NWI")
    /\ files' = Write(files, "images/step6_calculation_verification.png", "png")
    /\ pc' = "step7"
    /\ UNCHANGED <<input_file, df_raw, duplicates_before, full_duplicates,
                   duplicates_removed, missing_before, range_report,
                   data_filtered, category_counts, summary_stats,
                   comparison_data>>

(***************************************************************************)
(* STEP 7: CATEGORIZE WALKABILITY LEVELS                                   *)
(***************************************************************************)
\* score <= bound for the binary64 a NatWalkInd cell names and the literal
\* bound/100 (5.75, 10.5 and 15.25 are binary64 values)
ScoreLeq(score, bound) ==
    ~F64Less(F64OfHundredths(bound), F64OfHundredths(score))

\* a slip: a score outside [1, 20] is rejected
categorize_walkability_domain(score) ==
    IF isnull(score) THEN "Unknown"
    ELSE IF ~ScoreLeq(100, score) \/ ~ScoreLeq(score, 2000) THEN "Unknown"
    ELSE IF ScoreLeq(score, 575) THEN "Least Walkable"
    ELSE IF ScoreLeq(score, 1050) THEN "Below Average Walkable"
    ELSE IF ScoreLeq(score, 1525) THEN "Above Average Walkable"
    ELSE "Most Walkable"

\* a slip: < for <=
categorize_walkability_strict(score) ==
    IF isnull(score) THEN "Unknown"
    ELSE IF ~ScoreLeq(575, score) THEN "Least Walkable"
    ELSE IF ~ScoreLeq(1050, score) THEN "Below Average Walkable"
    ELSE IF ~ScoreLeq(1525, score) THEN "Above Average Walkable"
    ELSE "Most Walkable"

\* a slip: no pd.isna test; every comparison with NaN is False
categorize_walkability_no_isna(score) ==
    IF ~isnull(score) /\ ScoreLeq(score, 575) THEN "Least Walkable"
    ELSE IF ~isnull(score) /\ ScoreLeq(score, 1050) THEN "Below Average Walkable"
    ELSE IF ~isnull(score) /\ ScoreLeq(score, 1525) THEN "Above Average Walkable"
    ELSE "Most Walkable"

categorize_walkability(score) ==
    IF isnull(score) THEN "Unknown"
    ELSE IF ScoreLeq(score, 575) THEN "Least Walkable"
    ELSE IF ScoreLeq(score, 1050) THEN "Below Average Walkable"
    ELSE IF ScoreLeq(score, 1525) THEN "Above Average Walkable"
    ELSE "Most Walkable"

\* Series.value_counts(): the values present, each with its count
value_counts(values) ==
    [v \in Range(values) |-> Cardinality({i \in DOMAIN values : values[i] = v})]

Step7 ==
    /\ pc = "step7"
    /\ LET labelled ==
               SetColumn(df, "Walkability_Category",
                         [i \in 1..len(df) |->
                             categorize_walkability(df.rows[i]["NatWalkInd"])])
       IN  /\ df' = labelled
           /\ category_counts' = value_counts(Column(labelled, "Walkability_Category"))
    /\ files' = Write(files, "images/step7_categories.png", "png")
    /\ pc' = "step8"
    /\ UNCHANGED <<input_file, df_raw, duplicates_before, full_duplicates,
                   duplicates_removed, missing_before, range_report,
                   data_filtered, max_diff, mean_diff, verification, summary_stats,
                   comparison_data>>

(***************************************************************************)
(* STEP 8: CREATE SUMMARY STATISTICS                                       *)
(***************************************************************************)
RECURSIVE Insert(_, _)
Insert(v, s) ==
    IF s = <<>> THEN <<v>>
    ELSE IF v <= Head(s) THEN <<v>> \o s
    ELSE <<Head(s)>> \o Insert(v, Tail(s))

RECURSIVE Sorted(_)
Sorted(s) == IF s = <<>> THEN <<>> ELSE Insert(Head(s), Sorted(Tail(s)))

RECURSIVE Sum(_)
Sum(s) == IF s = <<>> THEN 0 ELSE Head(s) + Sum(Tail(s))

\* four times the q-th quartile of the sorted values s, by linear
\* interpolation between the two nearest ranks
Quartile4(s, q) ==
    LET pos4 == (Len(s) - 1) * q
        i == pos4 \div 4 + 1
        f == pos4 % 4
    IN  IF f = 0 THEN 4 * s[i] ELSE 4 * s[i] + f * (s[i + 1] - s[i])

\* Series.describe(): the statistics of the non-null cells.  mean is
\* total / count, a quartile is q4 / 4
describe(values) ==
    LET s == Sorted(KeepFrom(values, [i \in DOMAIN values |-> ~isnull(values[i])], 1))
    IN  IF s = <<>>
        THEN [count |-> 0, total |-> NaN, min |-> NaN, q25x4 |-> NaN,
              q50x4 |-> NaN, q75x4 |-> NaN, max |-> NaN]
        ELSE [count |-> Len(s), total |-> Sum(s), min |-> s[1],
              q25x4 |-> Quartile4(s, 1), q50x4 |-> Quartile4(s, 2),
              q75x4 |-> Quartile4(s, 3), max |-> s[Len(s)]]

\* df[key_vars].describe()
SummaryStats(frame) ==
    [v \in Range(key_vars) |-> describe(Column(frame, v))]

Step8 ==
    /\ pc = "step8"
    /\ summary_stats' = SummaryStats(df)
    /\ files' = Write(Write(files, "images/step8_summary_statistics.csv",
                            SummaryStats(df)),
                      "images/step8_summary_boxplots.png", "png")
    /\ pc' = "step9"
    /\ UNCHANGED <<input_file, df_raw, df, duplicates_before, full_duplicates,
                   duplicates_removed, missing_before, range_report,
                   data_filtered, max_diff, mean_diff, verification, category_counts,
                   comparison_data>>

(***************************************************************************)
(* STEP 9: SAVE CLEANED DATA                                               *)
(***************************************************************************)
output_csv == "cleaned_data/walkability_cleaned.csv"

output_xlsx == "cleaned_data/walkability_cleaned.xlsx"

\* the values pd.Timestamp.now() may return
Clock == {"t1", "t2"}

Metadata(now) ==
    [cleaning_date |-> now,
     original_records |-> len(df_raw),
     final_records |-> len(df),
     records_removed |-> len(df_raw) - len(df),
     columns_selected |-> Len(df.cols),
     key_variables |-> key_vars,
     output_files |-> <<output_csv, output_xlsx>>]

\* the writes of step 9 in program order, as <<name, content>>
Step9Writes(now) ==
    << <<output_csv, df>>,
       <<output_xlsx, df>>,
       <<"cleaned_data/cleaning_metadata.txt", Metadata(now)>> >>

\* the files after the first k of the writes
RECURSIVE WriteAll(_, _, _)
WriteAll(fs, writes, k) ==
    IF k = 0 THEN fs
    ELSE Write(WriteAll(fs, writes, k - 1), writes[k][1], writes[k][2])

Step9 ==
    /\ pc = "step9"
    /\ \E now \in Clock :
          \/ /\ files' = WriteAll(files, Step9Writes(now), 3)
             /\ pc' = "step10"
          \/ \E k \in 0..2 :                    \* write k + 1 raises
                /\ files' = WriteAll(files, Step9Writes(now), k)
                /\ pc' = "failed"
    /\ UNCHANGED <<input_file, df_raw, df, duplicates_before, full_duplicates,
                   duplicates_removed, missing_before, range_report,
                   data_filtered, max_diff, mean_diff, verification,
                   category_counts, summary_stats, comparison_data>>

(***************************************************************************)
(* STEP 10: GENERATE BEFORE/AFTER COMPARISON                               *)
(***************************************************************************)
\* a slip: the comparison carries the time of the run
ComparisonData_dated ==
    [Metric |-> <<"Total Records", "Total Columns", "Duplicates",
                  "Missing (D3B)", "Missing (D4A)", "Missing (D2B_E8MIXA)",
                  "Missing (D2A_EPHHM)", "Missing (NatWalkInd)">>,
     Before |-> <<len(df_raw), Len(df_raw.cols), duplicates_before,
                  0, 0, 0, 0, 0>>,
     After |-> <<len(df), Len(df.cols), 0,
                 isnull_sum(df, "D3B"), isnull_sum(df, "D4A"),
                 isnull_sum(df, "D2B_E8MIXA"), isnull_sum(df, "D2A_EPHHM"),
                 isnull_sum(df, "NatWalkInd")>>,
     Date |-> files["cleaned_data/cleaning_metadata.txt"].cleaning_date]

ComparisonData ==
    [Metric |-> <<"Total Records", "Total Columns", "Duplicates",
                  "Missing (D3B)", "Missing (D4A)", "Missing (D2B_E8MIXA)",
                  "Missing (D2A_EPHHM)", "Missing (NatWalkInd)">>,
     Before |-> <<len(df_raw), Len(df_raw.cols), duplicates_before,
                  0, 0, 0, 0, 0>>,
     After |-> <<len(df), Len(df.cols), 0,
                 isnull_sum(df, "D3B"), isnull_sum(df, "D4A"),
                 isnull_sum(df, "D2B_E8MIXA"), isnull_sum(df, "D2A_EPHHM"),
                 isnull_sum(df, "NatWalkInd")>>]

Step10 ==
    /\ pc = "step10"
    /\ comparison_data' = ComparisonData
    /\ files' = Write(Write(files, "images/step10_before_after_comparison.csv",
                            ComparisonData),
                      "images/step10_before_after.png", "png")
    /\ pc' = "done"
    /\ UNCHANGED <<input_file, df_raw, df, duplicates_before, full_duplicates,
                   duplicates_removed, missing_before, range_report,
                   data_filtered, max_diff, mean_diff, verification, category_counts,
                   summary_stats>>

Next ==
    \/ Step1
    \/ Step2
    \/ Step3
    \/ Step4
    \/ Step5
    \/ Step6
    \/ Step7
    \/ Step8
    \/ Step9
    \/ Step10

Spec == Init /\ [][Next]_vars

\* the same run on the one-row sources
SpecCategorize == InitCategorize /\ [][Next]_vars

\* the same run on the five-row sources
SpecScenario == InitScenario /\ [][Next]_vars


(***************************************************************************)
(* What the properties below speak about.                                  *)
(***************************************************************************)
AfterDedup ==
    pc \in {"step4", "step5", "step6", "step7", "step8", "step9", "step10", "done"}

Exported == output_csv \in DOMAIN files /\ output_xlsx \in DOMAIN files

\* a row cut down to the whitelist columns
KeyPart(row) == [c \in Range(key_columns) |-> row[c]]

KeyParts(rows) == [i \in 1..Len(rows) |-> KeyPart(rows[i])]

\* the rows of the source whose GEOID10 no earlier row has
FirstIdx ==
    {i \in 1..len(df_raw) :
        \A j \in 1..(i - 1) : df_raw.rows[j]["GEOID10"] # df_raw.rows[i]["GEOID10"]}

FirstOf(geoid) ==
    CHOOSE i \in FirstIdx : df_raw.rows[i]["GEOID10"] = geoid

UniqueKeys(rows) ==
    \A i, j \in 1..Len(rows) : i # j => rows[i]["GEOID10"] # rows[j]["GEOID10"]

\* C1: in every state after the Deduplicator step, through export, no two
\* records of the dataset share a GEOID10, and neither do two records of
\* the exported files.
C1_KeyUniqueness ==
    /\ AfterDedup => UniqueKeys(df.rows)
    /\ Exported => /\ UniqueKeys(files[output_csv].rows)
                   /\ UniqueKeys(files[output_xlsx].rows)

C1_Witness ==
    /\ pc = "done"
    /\ Exported
    /\ duplicates_before > 0
    /\ len(df) > 1

\* C2: right after deduplication the dataset holds, for every GEOID10 of
\* the input, exactly the first row with that key and that row's values;
\* a row is gone exactly when an earlier row has its key.
C2_DedupTieBreak ==
    pc = "step4" =>
        /\ len(df) = Cardinality(FirstIdx)
        /\ duplicates_removed = len(df_raw) - Cardinality(FirstIdx)
        /\ \A r \in 1..len(df) :
               df.rows[r] = KeyPart(df_raw.rows[FirstOf(df.rows[r]["GEOID10"])])
        /\ \A i \in FirstIdx :
               \E r \in 1..len(df) : df.rows[r] = KeyPart(df_raw.rows[i])

C2_Witness ==
    /\ pc = "step4"
    /\ \E i, j \in 1..len(df_raw) :
           /\ i < j
           /\ df_raw.rows[i]["GEOID10"] = df_raw.rows[j]["GEOID10"]
           /\ df_raw.rows[i] # df_raw.rows[j]
           /\ i \in FirstIdx
           /\ \E r \in 1..len(df) : df.rows[r] = KeyPart(df_raw.rows[i])

\* C3: no step after deduplication removes or changes a record: each of
\* steps 4 to 10 leaves the rows' source values as they were, and the export
\* of step 9 writes every row of the dataset, null cells included.
C3_Completeness ==
    [][/\ AfterDedup => KeyParts(df'.rows) = KeyParts(df.rows)
       /\ (pc = "step9" /\ pc' = "step10") =>
              /\ KeyParts(files'[output_csv].rows) = KeyParts(df.rows)
              /\ KeyParts(files'[output_xlsx].rows) = KeyParts(df.rows)]_vars

C3_Witness ==
    /\ pc = "done"
    /\ Exported
    /\ \E r \in 1..Len(files[output_csv].rows) :
           /\ isnull(files[output_csv].rows[r]["NatWalkInd"])
           /\ isnull(files[output_csv].rows[r]["D3B"])
    /\ \E r \in 1..Len(files[output_csv].rows) :
           isnull(files[output_csv].rows[r]["D2A_Ranked"])

Labelled == pc \in {"step8", "step9", "step10", "done"}

\* C4: every non-null index value v in [1, 20] gets exactly the label of
\* its interval: v <= 5.75 Least, 5.75 < v <= 10.5 Below Average,
\* 10.5 < v <= 15.25 Above Average, 15.25 < v Most; a breakpoint belongs to
\* the lower interval.  (v in hundredths.)
C4_CategorizationPartition ==
    Labelled =>
        \A r \in 1..len(df) :
            LET v == df.rows[r]["NatWalkInd"]
                label == df.rows[r]["Walkability_Category"]
            IN  (~isnull(v) /\ 100 <= v /\ v <= 2000) =>
                    /\ (v <= 575) <=> (label = "Least Walkable")
                    /\ (575 < v /\ v <= 1050) <=> (label = "Below Average Walkable")
                    /\ (1050 < v /\ v <= 1525) <=> (label = "Above Average Walkable")
                    /\ (1525 < v) <=> (label = "Most Walkable")

C4_Witness ==
    /\ pc = "done"
    /\ len(df) = 1
    /\ df.rows[1]["NatWalkInd"] = 575
    /\ df.rows[1]["Walkability_Category"] = "Least Walkable"

\* C5: a record is labelled Unknown exactly when its NatWalkInd is null;
\* every other record gets one of the four ordinal labels.
C5_UnknownIffNull ==
    Labelled =>
        \A r \in 1..len(df) :
            /\ (df.rows[r]["Walkability_Category"] = "Unknown")
                   <=> isnull(df.rows[r]["NatWalkInd"])
            /\ ~isnull(df.rows[r]["NatWalkInd"]) =>
                   df.rows[r]["Walkability_Category"] \in
                       {"Least Walkable", "Below Average Walkable",
                        "Above Average Walkable", "Most Walkable"}

C5_Witness ==
    /\ pc = "done"
    /\ len(df) = 1
    /\ isnull(df.rows[1]["NatWalkInd"])
    /\ df.rows[1]["Walkability_Category"] = "Unknown"

AfterRange == pc \in {"step6", "step7", "step8", "step9", "step10", "done"}

\* the D4A cells that are neither null nor the sentinel
TypicalD4A(rows) ==
    KeepFrom([i \in 1..Len(rows) |-> rows[i]["D4A"]],
             [i \in 1..Len(rows) |->
                 ~isnull(rows[i]["D4A"]) /\ rows[i]["D4A"] # Sentinel], 1)

\* C6: after range validation no range warning names D4A, no observed
\* minimum or maximum is the sentinel, and the D4A values whose range step 5
\* shows are the non-null ones without the -99999 records.
C6_SentinelExclusion ==
    AfterRange =>
        /\ \A var \in DOMAIN range_report :
               /\ ~range_report[var].in_range => var # "D4A"
               /\ range_report[var].actual_min # Sentinel
               /\ range_report[var].actual_max # Sentinel
        /\ data_filtered = TypicalD4A(df.rows)

C6_Witness ==
    /\ pc = "step6"
    /\ \E r \in 1..len(df) : df.rows[r]["D4A"] = Sentinel
    /\ data_filtered # <<>>
    /\ Len(data_filtered) < len(df)

\* C7: the summary statistics of D4A are those of the records without the
\* sentinel, and the sentinel records stay in the dataset.
C7_SentinelOutOfStatistics ==
    pc \in {"step9", "step10", "done"} =>
        LET typical == TypicalD4A(df.rows)
        IN  /\ summary_stats["D4A"].count = Len(typical)
            /\ summary_stats["D4A"].min # Sentinel
            /\ typical # <<>> => summary_stats["D4A"].total = Sum(typical)
            /\ \A i \in FirstIdx :
                   df_raw.rows[i]["D4A"] = Sentinel =>
                       \E r \in 1..len(df) :
                           KeyPart(df.rows[r]) = KeyPart(df_raw.rows[i])

AfterFormula == pc \in {"step7", "step8", "step9", "step10", "done"}

\* the records with all four ranked scores and the index present
Populated ==
    {r \in 1..len(df) :
        \A c \in {"D3B_Ranked", "D4A_Ranked", "D2B_Ranked", "D2A_Ranked",
                  "NatWalkInd"} : ~isnull(df.rows[r][c])}

\* D3B_Ranked/3 + D4A_Ranked/3 + D2B_Ranked/6 + D2A_Ranked/6 in binary64
Recomputed(r) ==
    F64Add(F64Add(F64Add(F64Div(df.rows[r]["D3B_Ranked"], 3),
                         F64Div(df.rows[r]["D4A_Ranked"], 3)),
                  F64Div(df.rows[r]["D2B_Ranked"], 6)),
           F64Div(df.rows[r]["D2A_Ranked"], 6))

\* |NatWalkInd - recomputed| in binary64
RowDiff(r) == F64AbsDiff(F64OfHundredths(df.rows[r]["NatWalkInd"]), Recomputed(r))

\* 600 * |NatWalkInd - recomputed| for the decimal h/100 and the exact sum
ExactDiff600(r) ==
    LET e == 6 * df.rows[r]["NatWalkInd"]
             - 100 * (2 * df.rows[r]["D3B_Ranked"] + 2 * df.rows[r]["D4A_Ranked"]
                      + df.rows[r]["D2B_Ranked"] + df.rows[r]["D2A_Ranked"])
    IN  IF e < 0 THEN 0 - e ELSE e

Warned == verification = "discrepancies"

\* C8 as stated: the mismatch warning is emitted exactly when the maximum
\* over the records of |NatWalkInd - recomputed| is at least 0.01.
C8_WarningIffMaxAtLeastTolerance ==
    AfterFormula =>
        (Warned <=> \E r \in Populated : ~F64Less(RowDiff(r), F64OfHundredths(1)))

\* C8 amended: max_diff is the largest |NatWalkInd - recomputed| over the
\* fully populated records, NaN when there is none; the warning is emitted
\* exactly when that maximum is at least 0.01 or there is no such record; a
\* difference of exactly 0.01 warns; (12, 9, 15, 6) recomputes to 10.5; a
\* decimal difference above 0.01 warns and one below does not.
C8_FormulaCheck ==
    AfterFormula =>
        /\ (max_diff = F64NaN) <=> (Populated = {})
        /\ \A r \in Populated : ~F64Less(max_diff, RowDiff(r))
        /\ Populated # {} => \E r \in Populated : max_diff = RowDiff(r)
        /\ Warned <=> \/ Populated = {}
                      \/ \E r \in Populated : ~F64Less(RowDiff(r), F64OfHundredths(1))
        /\ \A r \in Populated :
               /\ RowDiff(r) = F64OfHundredths(1) => Warned
               /\ ExactDiff600(r) > 6 => Warned
               /\ <<df.rows[r]["D3B_Ranked"], df.rows[r]["D4A_Ranked"],
                    df.rows[r]["D2B_Ranked"], df.rows[r]["D2A_Ranked"]>>
                      = <<12, 9, 15, 6>> => Recomputed(r) = F64OfHundredths(1050)
        /\ (Populated # {} /\ \A r \in Populated : ExactDiff600(r) < 6) => ~Warned

C8_Witness ==
    /\ pc = "step7"
    /\ Warned
    /\ Populated # {}
    /\ \A r \in Populated : RowDiff(r) = F64OfHundredths(1)

\* C9: the FormulaVerifier step leaves the dataset's columns and values as
\* they were, and the exported files have exactly the whitelist columns, in
\* whitelist order, followed by Walkability_Category.
C9_RecomputedNeverPersisted ==
    [][/\ pc = "step6" => df' = df
       /\ (pc = "step9" /\ pc' = "step10") =>
              \A f \in {output_csv, output_xlsx} :
                  /\ files'[f].cols = key_columns \o <<"Walkability_Category">>
                  /\ \A r \in 1..Len(files'[f].rows) :
                         DOMAIN files'[f].rows[r] =
                             Range(key_columns) \cup {"Walkability_Category"}]_vars

C9_Witness ==
    /\ pc = "done"
    /\ Exported
    /\ max_diff # F64NaN
    /\ "Calculated_NWI" \notin Range(files[output_csv].cols)
    /\ Len(files[output_csv].rows) > 0

\* a ranked score or the index of the row lies outside [1, 20]
OutOfDomain(row) ==
    \/ \E c \in {"D3B_Ranked", "D4A_Ranked", "D2B_Ranked", "D2A_Ranked"} :
           ~isnull(row[c]) /\ (row[c] < 1 \/ row[c] > 20)
    \/ ~isnull(row["NatWalkInd"])
           /\ (row["NatWalkInd"] < 100 \/ row["NatWalkInd"] > 2000)

\* C10: the RangeValidator step leaves the dataset as it was, and every
\* record that is out of range at that step is in the export with its values.
C10_RangeValidationAdvisory ==
    [][/\ pc = "step5" => df' = df
       /\ (pc = "step9" /\ pc' = "step10") =>
              \A i \in FirstIdx :
                  OutOfDomain(df_raw.rows[i]) =>
                      \A f \in {output_csv, output_xlsx} :
                          \E r \in 1..Len(files'[f].rows) :
                              KeyPart(files'[f].rows[r]) = KeyPart(df_raw.rows[i])]_vars

C10_Witness ==
    /\ pc = "done"
    /\ ~range_report["D3B_Ranked"].in_range
    /\ ~range_report["NatWalkInd"].in_range
    /\ \E r \in 1..Len(files[output_csv].rows) :
           files[output_csv].rows[r]["D3B_Ranked"] = 25
    /\ \E r \in 1..Len(files[output_csv].rows) :
           files[output_csv].rows[r]["NatWalkInd"] = 1

\* the artifacts a run puts out, plots aside
OutputArtifacts ==
    {"images/step1_raw_data_info.txt", "images/step8_summary_statistics.csv",
     output_csv, output_xlsx, "cleaned_data/cleaning_metadata.txt",
     "images/step10_before_after_comparison.csv"}

\* C11: a run that has aborted (unparseable source, missing column, write
\* that raised) has written none of the output artifacts.
C11_NoPartialOutput ==
    pc = "failed" => DOMAIN files \cap OutputArtifacts = {}

\* the file that shows that step k has run
StageFile ==
    <<"images/step1_raw_data_info.txt", "images/step2_column_selection.png",
      "images/step3_duplicates.png", "images/step4_missing_values_before.png",
      "images/step5_distributions.png",
      "images/step6_calculation_verification.png",
      "images/step7_categories.png", "images/step8_summary_boxplots.png",
      "cleaned_data/cleaning_metadata.txt", "images/step10_before_after.png">>

StageOrder ==
    <<"step1", "step2", "step3", "step4", "step5", "step6", "step7", "step8",
      "step9", "step10", "done">>

Executed(k) == StageFile[k] \in DOMAIN files

MissingColumn == ~(Range(key_columns) \subseteq Range(input_file.cols))

\* C12: the steps run in the one order load, project, deduplicate,
\* missing-check, range-check, formula-check, categorize, summarize, export,
\* report, none skipped and none repeated; an unparseable source stops the
\* run in step 1 and a missing column in step 2, and then no later step has
\* run; steps 3 to 8 never stop the run, whatever the data (duplicate keys,
\* out-of-range values, a formula mismatch): each of them hands over to the
\* next step, so that a run past projection arrives at the export step.
C12_SingleForwardPath ==
    /\ [](/\ \A k \in 2..Len(StageFile) : Executed(k) => Executed(k - 1)
          /\ pc = "failed" =>
                 /\ (input_file = Unparseable \/ MissingColumn) =>
                        \A k \in 3..Len(StageFile) : ~Executed(k)
                 /\ input_file = Unparseable => DOMAIN files = {})
    /\ [][/\ \E k \in 1..(Len(StageOrder) - 1) :
                /\ pc = StageOrder[k]
                /\ pc' \in {StageOrder[k + 1], "failed"}
                /\ pc' # "failed" => Executed(k)'
          /\ (pc = "step1" /\ input_file = Unparseable) => pc' = "failed"
          /\ (pc = "step2" /\ MissingColumn) => pc' = "failed"
          /\ pc' = "failed" =>
                 \/ pc = "step1" /\ input_file = Unparseable
                 \/ pc = "step2" /\ MissingColumn
                 \/ pc = "step9"]_vars

C12_Witness ==
    /\ pc = "step10"
    /\ duplicates_before > 0
    /\ verification = "discrepancies"
    /\ \E var \in DOMAIN range_report : ~range_report[var].in_range
    /\ \A k \in 1..9 : Executed(k)

\* the metrics of the before/after comparison that are counts
CountMetrics ==
    {"Total Records", "Total Columns", "Duplicates", "Missing (D3B)",
     "Missing (D4A)", "Missing (D2B_E8MIXA)", "Missing (D2A_EPHHM)",
     "Missing (NatWalkInd)"}

\* C13: when a validated field was found out of range or the formula check
\* warned, the before/after comparison of the finished run holds an entry
\* that records the warning.
C13_WarningsInAudit ==
    (/\ pc = "done"
     /\ \/ \E var \in DOMAIN range_report : ~range_report[var].in_range
        \/ verification = "discrepancies") =>
        \E k \in DOMAIN comparison_data.Metric :
            comparison_data.Metric[k] \notin CountMetrics

\* the cleaned dataset as a function of the source alone
CleanedOf(src) ==
    LET clean == drop_duplicates(Select(src, key_columns), {"GEOID10"})
    IN  SetColumn(clean, "Walkability_Category",
                  [i \in 1..len(clean) |->
                      categorize_walkability(clean.rows[i]["NatWalkInd"])])

\* the before/after comparison as a function of the source alone
ReportOf(src) ==
    LET keys == {src.rows[i]["GEOID10"] : i \in 1..len(src)}
        out == CleanedOf(src)
    IN  [Metric |-> <<"Total Records", "Total Columns", "Duplicates",
                      "Missing (D3B)", "Missing (D4A)", "Missing (D2B_E8MIXA)",
                      "Missing (D2A_EPHHM)", "Missing (NatWalkInd)">>,
         Before |-> <<len(src), Len(src.cols), len(src) - Cardinality(keys),
                      0, 0, 0, 0, 0>>,
         After |-> <<Cardinality(keys), Len(key_columns) + 1, 0>>
                   \o [k \in 1..Len(key_vars) |-> isnull_sum(out, key_vars[k])]]

\* C14: the cleaned output (rows, order, columns, values, labels) and the
\* before/after comparison are functions of the source alone, so two runs on
\* the same source put out the same cleaned dataset and the same comparison,
\* whatever the clock reads.
C14_Determinism ==
    /\ Exported => /\ files[output_csv] = CleanedOf(input_file)
                   /\ files[output_xlsx] = CleanedOf(input_file)
    /\ pc = "done" =>
           /\ comparison_data = ReportOf(input_file)
           /\ files["images/step10_before_after_comparison.csv"]
                  = ReportOf(input_file)

C14_Witness ==
    /\ pc = "done"
    /\ files["cleaned_data/cleaning_metadata.txt"].cleaning_date = "t2"
    /\ duplicates_before > 0
    /\ len(df) > 1
    /\ files[output_csv] = df

AfterMissing ==
    pc \in {"step5", "step6", "step7", "step8", "step9", "step10", "done"}

\* the number of records of the frame whose D4A is the sentinel
SentinelCount(frame) ==
    Count([i \in 1..len(frame) |-> frame.rows[i]["D4A"] = Sentinel])

\* C15: the missing-value step puts out, for each key field, the number of
\* post-dedup records whose value is null, a D4A of -99999 never being
\* counted as null, and beside the null counts a separate count of the
\* -99999 occurrences of D4A.
C15_MissingValueClassification ==
    AfterMissing =>
        /\ \A v \in Range(key_vars) :
               missing_before[v] =
                   Cardinality({r \in 1..len(df) : df.rows[r][v] = NaN})
        /\ missing_before["D4A"] + SentinelCount(df) <= len(df)
        /\ \E k \in DOMAIN missing_before \ Range(key_vars) :
               missing_before[k] = SentinelCount(df)

\* C16: in the finished run every Before entry of the comparison is the
\* count measured on the source before any transformation (records,
\* columns, rows repeating an earlier GEOID10, nulls of each key variable)
\* and every After entry is the same count on the final dataset.
C16_FaithfulSnapshot ==
    pc = "done" =>
        /\ comparison_data.Before =
               <<len(df_raw), Len(df_raw.cols),
                 Count(duplicated(df_raw, {"GEOID10"}))>>
               \o [k \in 1..Len(key_vars) |-> isnull_sum(df_raw, key_vars[k])]
        /\ comparison_data.After =
               <<len(files[output_csv]), Len(files[output_csv].cols),
                 Count(duplicated(files[output_csv], {"GEOID10"}))>>
               \o [k \in 1..Len(key_vars) |->
                      isnull_sum(files[output_csv], key_vars[k])]

RankedColumns == {"D3B_Ranked", "D4A_Ranked", "D2B_Ranked", "D2A_Ranked"}

\* the sum of the counts of a value_counts() result
RECURSIVE CountTotal(_)
CountTotal(counts) ==
    IF DOMAIN counts = {} THEN 0
    ELSE LET v == CHOOSE x \in DOMAIN counts : TRUE
         IN  counts[v] + CountTotal([x \in DOMAIN counts \ {v} |-> counts[x]])

\* C17: on a source of 5 rows with one duplicate GEOID10, one surviving row
\* with a null ranked score and one with D4A = -99999, the finished run has
\* 4 output rows, 1 duplicate removed, a missing count of 1 for the ranked
\* score that holds the null, no range warning and category counts that sum
\* to 4; and in every run the category counts sum to the number of
\* post-dedup records.
C17_EndToEndSmallRun ==
    /\ Labelled => CountTotal(category_counts) = len(df)
    /\ pc = "done" =>
           /\ len(files[output_csv]) = 4
           /\ duplicates_removed = 1
           /\ comparison_data.Before[3] = 1
           /\ \A var \in DOMAIN range_report : range_report[var].in_range
           /\ CountTotal(category_counts) = 4
           /\ \A c \in RankedColumns :
                  (\E r \in 1..len(df) : isnull(df.rows[r][c])) =>
                      /\ c \in DOMAIN missing_before
                      /\ missing_before[c] = 1

MetadataWritten == "cleaned_data/cleaning_metadata.txt" \in DOMAIN files

\* C18: the 'records removed' of the metadata (original - final) is the
\* number of rows the deduplication step removed, which is the number of
\* source rows whose GEOID10 repeats an earlier row's and the Duplicates
\* Before entry of the comparison; the final record count is the number of
\* distinct GEOID10 values of the source.
C18_RemovalAccounting ==
    /\ MetadataWritten =>
           LET meta == files["cleaned_data/cleaning_metadata.txt"]
               keys == {df_raw.rows[i]["GEOID10"] : i \in 1..len(df_raw)}
               repeats == {i \in 1..len(df_raw) :
                              \E j \in 1..(i - 1) :
                                  df_raw.rows[j]["GEOID10"] = df_raw.rows[i]["GEOID10"]}
           IN  /\ meta.records_removed = meta.original_records - meta.final_records
               /\ meta.records_removed = duplicates_removed
               /\ meta.records_removed = Cardinality(repeats)
               /\ meta.records_removed = duplicates_before
               /\ meta.final_records = Cardinality(keys)
               /\ meta.final_records = len(files[output_csv])
    /\ pc = "done" =>
           comparison_data.Before[3] =
               files["cleaned_data/cleaning_metadata.txt"].records_removed

C18_Witness ==
    /\ pc = "done"
    /\ files["cleaned_data/cleaning_metadata.txt"].records_removed = 1
    /\ files["cleaned_data/cleaning_metadata.txt"].final_records = 2
    /\ comparison_data.Before[3] = 1

\* the rows stand in the order of the first occurrences of their keys in
\* the source
InSourceOrder(rows) ==
    \A a, b \in 1..Len(rows) :
        a < b => FirstOf(rows[a]["GEOID10"]) < FirstOf(rows[b]["GEOID10"])

\* C19: from deduplication on the records of the dataset, and the records
\* of the exported files, stand in the order in which their first
\* occurrences stand in the source.
C19_OrderPreservation ==
    /\ AfterDedup => InSourceOrder(df.rows)
    /\ Exported => /\ InSourceOrder(files[output_csv].rows)
                   /\ InSourceOrder(files[output_xlsx].rows)

C19_Witness ==
    /\ pc = "done"
    /\ Exported
    /\ duplicates_before > 0
    /\ Len(files[output_csv].rows) = 2
    /\ files[output_csv].rows[1]["GEOID10"] > files[output_csv].rows[2]["GEOID10"]

\* the binary64 sum, in row order, of the differences of the fully populated
\* records among the first n
RECURSIVE PopulatedSum(_)
PopulatedSum(n) ==
    IF n = 0 THEN <<0, 0, 0>>
    ELSE IF n \in Populated THEN F64Add(PopulatedSum(n - 1), RowDiff(n))
    ELSE PopulatedSum(n - 1)

\* C20: a record with a null among the four ranked scores and the index
\* adds nothing to the maximum and the mean of the differences; when some
\* record has all five values the warning is emitted exactly when one of
\* those records differs by at least 0.01; when none has, the index is not
\* reported as verified.
C20_NullsInFormulaCheck ==
    AfterFormula =>
        /\ mean_diff.count = Cardinality(Populated)
        /\ mean_diff.total = PopulatedSum(len(df))
        /\ Populated # {} =>
               /\ max_diff \in {RowDiff(r) : r \in Populated}
               /\ Warned <=> \E r \in Populated : ~F64Less(RowDiff(r), Tolerance)
        /\ Populated = {} =>
               /\ max_diff = F64NaN
               /\ verification # "verified"

C20_Witness ==
    /\ pc = "step7"
    /\ verification = "verified"
    /\ Populated # {}
    /\ Cardinality(Populated) < len(df)
    /\ \E r \in 1..len(df) : isnull(df.rows[r]["D2A_Ranked"])
    /\ \E r \in 1..len(df) : isnull(df.rows[r]["NatWalkInd"])

\* C21: a non-null index outside [1, 20] is labelled like any other: below
\* 1 it is Least Walkable, above 20 it is Most Walkable, and no non-null
\* index is labelled Unknown; the record stays in the dataset.  (v in
\* hundredths.)
C21_OutOfDomainCategorized ==
    Labelled =>
        /\ len(df) = len(df_raw)
        /\ \A r \in 1..len(df) :
               LET v == df.rows[r]["NatWalkInd"]
                   label == df.rows[r]["Walkability_Category"]
               IN  ~isnull(v) =>
                       /\ v < 100 => label = "Least Walkable"
                       /\ v > 2000 => label = "Most Walkable"
                       /\ label # "Unknown"

C21_Witness ==
    /\ pc = "done"
    /\ len(df) = 1
    /\ df.rows[1]["NatWalkInd"] = 2001
    /\ df.rows[1]["Walkability_Category"] = "Most Walkable"
    /\ ~range_report["NatWalkInd"].in_range
    /\ files[output_csv].rows[1]["Walkability_Category"] = "Most Walkable"

====
